---- MODULE Spec2Model ----
(***************************************************************************)
(* Model of the image tooling of the repository:                           *)
(*   rename_ima.py      the sequential renamer (main, its helpers)         *)
(* File names are modelled as text: sequences of character codes, so that  *)
(* lowercasing, zero padding, integer parsing and lexical comparison are   *)
(* computed the way the program computes them.                             *)
(***************************************************************************)
EXTENDS Integers, Sequences, FiniteSets, TLC

(***************************************************************************)
(* Bounds of the model.                                                    *)
(***************************************************************************)
\* largest number of directory entries in the initial folder
MaxFiles == 3
\* number of consecutive runs of the renamer on the same folder
MaxRuns == 2
\* the padding width is tried on counts up to 10^MaxPow + 1
MaxPow == 5

(***************************************************************************)
(* Text.  A character is its ASCII code.                                   *)
(***************************************************************************)
Min(a, b) == IF a < b THEN a ELSE b
Max(a, b) == IF a > b THEN a ELSE b

\* str.lower() on ASCII text
Lower(s) == [i \in DOMAIN s |-> IF s[i] \in 65..90 THEN s[i] + 32 ELSE s[i]]

\* Python's str "<" : lexicographic on code points, a proper prefix is smaller
StrLess(a, b) ==
    \E k \in 1..(Min(Len(a), Len(b)) + 1) :
        /\ \A j \in 1..(k - 1) : a[j] = b[j]
        /\ \/ k > Len(a) /\ k <= Len(b)
           \/ k <= Len(a) /\ k <= Len(b) /\ a[k] < b[k]

\* tuple "<" on tuples of equal length (datetime comparison)
TupleLess(a, b) ==
    \E k \in 1..Len(a) :
        /\ \A j \in 1..(k - 1) : a[j] = b[j]
        /\ a[k] < b[k]

IsDigit(c) == c \in 48..57

\* str(n) for n >= 0
RECURSIVE Digits(_)
Digits(n) == IF n < 10 THEN <<48 + n>> ELSE Append(Digits(n \div 10), 48 + (n % 10))

\* len(str(n))
NumDigits(n) == Len(Digits(n))

\* f"{n:0{w}d}": zero padded to at least w characters, never truncated
ZeroPad(n, w) ==
    LET d == Digits(n)
    IN  IF Len(d) >= w THEN d ELSE [i \in 1..(w - Len(d)) |-> 48] \o d

\* int(s) on a string of decimal digits
RECURSIVE ParseInt(_)
ParseInt(s) ==
    IF s = <<>> THEN 0
    ELSE 10 * ParseInt(SubSeq(s, 1, Len(s) - 1)) + (s[Len(s)] - 48)

DotPng == <<46, 112, 110, 103>>
DotJpg == <<46, 106, 112, 103>>
DotJpeg == <<46, 106, 112, 101, 103>>
DotJPG == <<46, 74, 80, 71>>

\* ALLOWED_EXT = {'.png', '.jpg', '.jpeg'}
ALLOWED_EXT == {DotPng, DotJpg, DotJpeg}

\* temp_suffix = ".duckrenametemp"
temp_suffix ==
    <<46, 100, 117, 99, 107, 114, 101, 110, 97, 109, 101, 116, 101, 109, 112>>

(***************************************************************************)
(* Date tokens.  A file name holds at most one substring of the shape      *)
(* DATE_RE matches; it is kept as a record of its parts as written.        *)
(***************************************************************************)
StrAug == <<65, 117, 103>>
StrAugust == <<65, 117, 103, 117, 115, 116>>
StrAM == <<65, 77>>
StrPM == <<80, 77>>

NoTok == [mon |-> <<>>, day |-> 0, year |-> 0, hh |-> 0, mm |-> 0, ss |-> 0, ap |-> <<>>]

Tok(mon, day, year, hh, mm, ss, ap) ==
    [mon |-> mon, day |-> day, year |-> year, hh |-> hh, mm |-> mm, ss |-> ss, ap |-> ap]

\* the token as it is written in the name: "Aug 22, 2025, 12_45_12 PM"
TokChars(t) ==
    IF t = NoTok THEN <<>>
    ELSE t.mon \o <<32>> \o Digits(t.day) \o <<44, 32>> \o ZeroPad(t.year, 4)
         \o <<44, 32>> \o ZeroPad(t.hh, 2) \o <<95>> \o ZeroPad(t.mm, 2)
         \o <<95>> \o ZeroPad(t.ss, 2)
         \o (IF t.ap = <<>> THEN <<>> ELSE <<32>> \o t.ap)

\* month names strptime knows (lowercased), as <<name, month, days>>:
\* %b reads the abbreviated names, %B the full names
MonthsAbbr == { <<Lower(StrAug), 8, 31>> }
MonthsFull == { <<Lower(StrAugust), 8, 31>> }

DT_FMT_SHORT == MonthsAbbr
DT_FMT_LONG == MonthsFull

None == <<>>

\* datetime.strptime(s, fmt) for the two formats, which differ in the month
\* directive only; None stands for ValueError.  %I is the 12-hour clock and
\* %p is required.
Strptime(t, months) ==
    LET hit == {m \in months : m[1] = Lower(t.mon)}
    IN  IF /\ hit # {}
           /\ t.hh \in 1..12
           /\ t.mm \in 0..59
           /\ t.ss \in 0..59
           /\ Lower(t.ap) \in {Lower(StrAM), Lower(StrPM)}
           /\ t.year \in 1..9999
           /\ \E m \in hit : t.day \in 1..m[3]
        THEN LET m == CHOOSE m \in hit : TRUE
                 h == (t.hh % 12) + (IF Lower(t.ap) = Lower(StrPM) THEN 12 ELSE 0)
             IN  <<t.year, m[2], t.day, h, t.mm, t.ss>>
        ELSE None

(***************************************************************************)
(* File names: stem prefix, date token, extension, and whether the         *)
(* temporary suffix is appended.                                           *)
(***************************************************************************)
Name(pre, tok, ext) == [pre |-> pre, tok |-> tok, ext |-> ext, tmp |-> FALSE]

\* Path.name
NameChars(p) ==
    p.pre \o TokChars(p.tok) \o p.ext \o (IF p.tmp THEN temp_suffix ELSE <<>>)

\* Path.suffix
Suffix(p) == IF p.tmp THEN temp_suffix ELSE p.ext

\* Path.stem
Stem(p) == IF p.tmp THEN p.pre \o TokChars(p.tok) \o p.ext ELSE p.pre \o TokChars(p.tok)

\* NUM_RE = ^0*(\d+)$ matched against a stem
NUM_RE(stem) == stem # <<>> /\ \A i \in DOMAIN stem : IsDigit(stem[i])

\* parse_date_from_name
parse_date_from_name(p) ==
    IF p.tok = NoTok THEN None
    ELSE IF Strptime(p.tok, DT_FMT_SHORT) # None THEN Strptime(p.tok, DT_FMT_SHORT)
    ELSE Strptime(p.tok, DT_FMT_LONG)

(***************************************************************************)
(* The folders the runs start from: every set of at most MaxFiles entries  *)
(* drawn from these.  An entry is a regular file or a sub-directory.       *)
(***************************************************************************)
Tok1 == Tok(StrAug, 20, 2025, 9, 10, 0, StrAM)
Tok2 == Tok(StrAug, 22, 2025, 12, 45, 12, StrPM)
Tok3 == Tok(StrAugust, 22, 2025, 12, 45, 12, StrPM)
Tok4 == Tok(StrAug, 22, 2025, 12, 45, 12, <<>>)

File(p) == [name |-> p, isdir |-> FALSE]
Dir(p) == [name |-> p, isdir |-> TRUE]

Universe ==
    { File(Name(ZeroPad(5, 4), NoTok, DotPng)),        \* 0005.png
      File(Name(Digits(5), NoTok, DotJpg)),            \* 5.jpg
      File(Name(Digits(9998), NoTok, DotPng)),         \* 9998.png
      File(Name(<<65, 32>>, Tok1, DotPng)),            \* A Aug 20, 2025, 09_10_00 AM.png
      File(Name(<<65, 32>>, Tok2, DotPng)),            \* A Aug 22, 2025, 12_45_12 PM.png
      File(Name(<<66, 32>>, Tok3, DotJPG)),            \* B August 22, 2025, 12_45_12 PM.JPG
      File(Name(<<90, 32>>, Tok4, DotPng)),            \* Z Aug 22, 2025, 12_45_12.png
      File(Name(<<114, 97, 110, 100, 111, 109>>, NoTok, DotJpg)),     \* random.jpg
      File([Name(ZeroPad(6, 4), NoTok, DotPng) EXCEPT !.tmp = TRUE]), \* 0006.png.duckrenametemp
      Dir(Name(ZeroPad(6, 4), NoTok, DotPng)) }        \* 0006.png/ (a directory)

\* a directory holds one entry per name; each entry remembers the name it
\* had when the model started (orig), which identifies the file through renames
Folders ==
    { S \in SUBSET Universe :
        /\ Cardinality(S) <= MaxFiles
        /\ \A e1, e2 \in S : e1.name = e2.name => e1 = e2 }

Entry(e) == [name |-> e.name, isdir |-> e.isdir, orig |-> e.name]

(***************************************************************************)
(* State.                                                                  *)
(***************************************************************************)
VARIABLES
    folder,            \* what the path argument is: "dir", "file" or "missing"
    disk,              \* the entries of the folder
    dry_run,           \* args.dry_run
    pc,                \* position of main
    files,             \* main: files, in the order iterdir returned them
    existing_numbers,  \* main: existing_numbers (index -> name)
    next_index,        \* main: next_index
    ordered_new,       \* main: ordered_new
    pad,               \* main: pad
    rename_plan,       \* main: rename_plan, pairs <<src, final>>
    temp_plan,         \* main: temp_plan, triples <<src, temp, final>>
    k,                 \* position of the executor's current loop
    log,               \* the rename calls issued by this run, in order
    exitCode,          \* exit status of the run (-1 while it runs)
    outcome,           \* how the run ended ("" while it runs)
    run,               \* number of the current run
    disk0,             \* the folder as it was when the current run started
    pad_existing,      \* padding width on its own: len(existing_indices)
    pad_new,           \* padding width on its own: len(ordered_new)
    pad_width,         \* padding width on its own: the resulting pad
    dirExists,         \* server: the image directory exists
    dirFiles,          \* server: its files but metadata.json, name -> PIL can read it
    meta,              \* server: metadata.json, [st, len]
    frozen,            \* server: no other process changes the directory any more
    tpc,               \* server: position of every thread
    tdata,             \* server: generate_metadata's data (its length), per thread
    hpath,             \* server: self.path of the request a handler thread serves
    hgens,             \* server: finished generate_metadata calls of that request
    hresp,             \* server: what the response of that request was read from
    wprev,             \* server: watch_images' prev
    wnow,              \* server: watch_images' now
    lastPoll,          \* server: what the watcher's latest poll saw and decided
    regens             \* server: watcher regenerations decided since frozen

vars == <<folder, disk, dry_run, pc, files, existing_numbers, next_index,
          ordered_new, pad, rename_plan, temp_plan, k, log, exitCode,
          outcome, run, disk0, pad_existing, pad_new, pad_width,
          dirExists, dirFiles, meta, frozen, tpc, tdata, hpath, hgens, hresp,
          wprev, wnow, lastPoll, regens>>

padvars == <<pad_existing, pad_new, pad_width>>

srvvars == <<dirExists, dirFiles, meta, frozen, tpc, tdata, hpath, hgens, hresp,
             wprev, wnow, lastPoll, regens>>

\* the server is not part of a run of the renamer
ServerOff ==
    /\ dirExists = FALSE
    /\ dirFiles = <<>>
    /\ meta = [st |-> "absent", len |-> 0]
    /\ frozen = FALSE
    /\ tpc = <<>>
    /\ tdata = <<>>
    /\ hpath = <<>>
    /\ hgens = <<>>
    /\ hresp = <<>>
    /\ wprev = {}
    /\ wnow = {}
    /\ lastPoll = <<>>
    /\ regens = 0

locals == <<files, existing_numbers, next_index, ordered_new, pad,
            rename_plan, temp_plan, k>>

Names(d) == {e.name : e \in d}

\* Path.exists()
Exists(d, p) == p \in Names(d)

\* Path.is_file()
IsFile(d, p) == \E e \in d : e.name = p /\ ~e.isdir

Init ==
    /\ \/ /\ folder = "dir"
          /\ disk \in {{Entry(e) : e \in S} : S \in Folders}
       \/ /\ folder \in {"missing", "file"}
          /\ disk = {}
    /\ dry_run \in BOOLEAN
    /\ pc = "start"
    /\ files = <<>>
    /\ existing_numbers = <<>>
    /\ next_index = 0
    /\ ordered_new = <<>>
    /\ pad = 0
    /\ rename_plan = <<>>
    /\ temp_plan = <<>>
    /\ k = 0
    /\ log = <<>>
    /\ exitCode = -1
    /\ outcome = ""
    /\ run = 1
    /\ disk0 = disk
    /\ pad_existing = 0
    /\ pad_new = 0
    /\ pad_width = 0
    /\ ServerOff

\* sys.exit(code) / return from main
Exit(code, how) ==
    /\ pc' = "exit"
    /\ exitCode' = code
    /\ outcome' = how

Running ==
    /\ exitCode' = exitCode
    /\ outcome' = outcome

(***************************************************************************)
(* main, lines 54-56: the folder check.                                    *)
(***************************************************************************)
CheckFolder ==
    /\ pc = "start"
    /\ IF folder # "dir"
       THEN Exit(1, "nofolder")
       ELSE pc' = "scan" /\ Running
    /\ UNCHANGED <<folder, disk, dry_run, locals, log, run, disk0>>
    /\ UNCHANGED <<padvars, srvvars>>

(***************************************************************************)
(* main, lines 59-62: the scan.  iterdir returns the entries in an order   *)
(* the program does not control.                                           *)
(***************************************************************************)
Listings(S) ==
    { s \in [1..Cardinality(S) -> S] : \A i, j \in DOMAIN s : s[i] = s[j] => i = j }

ImageFiles(d) == {p \in Names(d) : IsFile(d, p) /\ Lower(Suffix(p)) \in ALLOWED_EXT}

Scan ==
    /\ pc = "scan"
    /\ \E listing \in Listings(ImageFiles(disk)) :
          /\ files' = listing
          /\ IF listing = <<>>
             THEN Exit(0, "noimages")
             ELSE pc' = "plan" /\ Running
    /\ UNCHANGED <<folder, disk, dry_run, existing_numbers, next_index,
                   ordered_new, pad, rename_plan, temp_plan, k, log, run, disk0>>
    /\ UNCHANGED <<padvars, srvvars>>

(***************************************************************************)
(* detect_existing_numbers, lines 34-51.  The dict is filled in listing    *)
(* order, so a later file with the same number replaces an earlier one.    *)
(***************************************************************************)
NumberOf(p) == ParseInt(Stem(p))

IsNumbered(p) == Lower(Suffix(p)) \in ALLOWED_EXT /\ NUM_RE(Stem(p))

SetMax(S) == CHOOSE m \in S : \A x \in S : x <= m

Range(s) == {s[i] : i \in DOMAIN s}

detect_existing_numbers(fs) ==
    LET hits == {i \in DOMAIN fs : IsNumbered(fs[i])}
        nums == {NumberOf(fs[i]) : i \in hits}
    IN  [n \in nums |-> fs[SetMax({i \in hits : NumberOf(fs[i]) = n})]]

(***************************************************************************)
(* main, lines 64-97: classification, ordering and the plan.               *)
(***************************************************************************)
\* list.sort(key=...): stable, ascending; less[i][j] says that the key of
\* s[i] is smaller than the key of s[j]
StableSort(s, less) ==
    LET n == Len(s)
        before(i) == {j \in 1..n : less[j][i] \/ (~less[i][j] /\ j < i)}
    IN  [r \in 1..n |-> s[CHOOSE i \in 1..n : Cardinality(before(i)) = r - 1]]

\* line 84: key=lambda x: x[1]
DateLess(a, b) == TupleLess(parse_date_from_name(a), parse_date_from_name(b))

\* line 85: key=lambda p: p.name.lower()
NameLowerLess(a, b) == StrLess(Lower(NameChars(a)), Lower(NameChars(b)))

\* the next index taken from the count of numbered files, which fills gaps
NextIndex_FromCount(existing) == Cardinality(DOMAIN existing) + 1

\* line 66
NextIndex(existing) ==
    IF DOMAIN existing # {} THEN SetMax(DOMAIN existing) + 1 ELSE 1

\* the numbered files are not taken out of the files to rename
Remaining_All(fs, existing) == fs

\* lines 69-72
Remaining(fs, existing) == SelectSeq(fs, LAMBDA p : p \notin Range(existing))

\* lines 75-87
OrderedNew(remaining) ==
    LET parsed == SelectSeq(remaining, LAMBDA p : parse_date_from_name(p) # None)
        others == SelectSeq(remaining, LAMBDA p : parse_date_from_name(p) = None)
    IN  StableSort(parsed, [i \in DOMAIN parsed |->
                                [j \in DOMAIN parsed |-> DateLess(parsed[i], parsed[j])]])
        \o StableSort(others, [i \in DOMAIN others |->
                                  [j \in DOMAIN others |-> NameLowerLess(others[i], others[j])]])

\* the 4 of line 90
MinPad == 4

\* the width computed from the new files alone
PadWidth_NewOnly(nExisting, nNew) == Max(MinPad, NumDigits(nNew))

\* lines 89-90
PadWidth(nExisting, nNew) == Max(MinPad, NumDigits(nExisting + nNew))

\* lines 95-96: folder / f"{idx:0{pad}d}{src.suffix.lower()}"
FinalName(idx, width, src) == Name(ZeroPad(idx, width), NoTok, Lower(Suffix(src)))

\* lines 93-97
RenamePlan(ordered, first, width) ==
    [i \in 1..Len(ordered) |-> <<ordered[i], FinalName(first + i - 1, width, ordered[i])>>]

Plan ==
    /\ pc = "plan"
    /\ LET existing == detect_existing_numbers(files)
           ordered == OrderedNew(Remaining(files, existing))
           width == PadWidth(Cardinality(DOMAIN existing), Len(ordered))
       IN  /\ existing_numbers' = existing
           /\ next_index' = NextIndex(existing)
           /\ ordered_new' = ordered
           /\ pad' = width
           /\ rename_plan' = RenamePlan(ordered, NextIndex(existing), width)
    /\ pc' = "check"
    /\ UNCHANGED <<folder, disk, dry_run, files, temp_plan, k, log, exitCode,
                   outcome, run, disk0>>
    /\ UNCHANGED <<padvars, srvvars>>

(***************************************************************************)
(* main, lines 99-123: the checks made before anything is renamed.         *)
(***************************************************************************)
FinalTargets(plan) == {plan[i][2] : i \in DOMAIN plan}

\* lines 101-105
Collision(existing, width, plan) ==
    \E n \in DOMAIN existing :
        Name(ZeroPad(n, width), NoTok, Lower(Suffix(existing[n]))) \in FinalTargets(plan)

\* line 108
DuplicateTargets(plan) == Cardinality(FinalTargets(plan)) # Len(plan)

\* a single-pass executor: the source goes straight to its final name
TempName_SinglePass(final) == final

\* line 116: src.with_name(final.name + temp_suffix)
TempName(final) == [final EXCEPT !.tmp = TRUE]

\* lines 114-117
TempPlan(plan) == [i \in DOMAIN plan |-> <<plan[i][1], TempName(plan[i][2]), plan[i][2]>>]

\* the check of the temporary names left out
TempExists_Never(d, tplan) == FALSE

\* the check made on the final names instead of the temporary names
TempExists_OfFinal(d, tplan) == \E i \in DOMAIN tplan : Exists(d, tplan[i][3])

\* lines 120-121
TempExists(d, tplan) == \E i \in DOMAIN tplan : Exists(d, tplan[i][2])

Validate ==
    /\ pc = "check"
    /\ IF Collision(existing_numbers, pad, rename_plan)
       THEN Exit(1, "collision") /\ UNCHANGED temp_plan
       ELSE IF DuplicateTargets(rename_plan)
       THEN Exit(1, "duplicate") /\ UNCHANGED temp_plan
       ELSE /\ temp_plan' = TempPlan(rename_plan)
            /\ IF TempExists(disk, TempPlan(rename_plan))
               THEN Exit(1, "tempexists")
               ELSE pc' = "ready" /\ Running
    /\ UNCHANGED <<folder, disk, dry_run, files, existing_numbers, next_index,
                   ordered_new, pad, rename_plan, k, log, run, disk0>>
    /\ UNCHANGED <<padvars, srvvars>>

(***************************************************************************)
(* main, lines 125-137: the dry-run report, or the start of the executor.  *)
(***************************************************************************)
\* the dry-run report without its return
AfterChecks_NoReturn(dry, n) == IF n = 0 THEN "done" ELSE "step1"

AfterChecks(dry, n) ==
    IF dry THEN "dryrun" ELSE IF n = 0 THEN "done" ELSE "step1"

DryRunOrExecute ==
    /\ pc = "ready"
    /\ LET to == AfterChecks(dry_run, Len(temp_plan))
       IN  IF to = "step1"
           THEN pc' = "step1" /\ k' = 1 /\ Running
           ELSE Exit(0, to) /\ UNCHANGED k
    /\ UNCHANGED <<folder, disk, dry_run, files, existing_numbers, next_index,
                   ordered_new, pad, rename_plan, temp_plan, log, run, disk0>>
    /\ UNCHANGED <<padvars, srvvars>>

(***************************************************************************)
(* Path.rename(target): the outcomes of one call.  The call may fail for   *)
(* reasons outside the program; it fails when the target is a directory;   *)
(* when the target is a regular file it replaces it (POSIX) or fails       *)
(* (Windows).                                                              *)
(***************************************************************************)
\* the source is copied and stays in the folder
Moved_KeepsSource(d, src, dst) ==
    LET e == CHOOSE e \in d : e.name = src
    IN  {x \in d : x.name # dst} \cup {[e EXCEPT !.name = dst]}

Moved(d, src, dst) ==
    LET e == CHOOSE e \in d : e.name = src
    IN  {x \in d : x.name # src /\ x.name # dst} \cup {[e EXCEPT !.name = dst]}

RenameResults(d, src, dst) ==
    LET fails == [ok |-> FALSE, disk |-> d, over |-> FALSE]
    IN  IF ~Exists(d, src) THEN {fails}
        ELSE IF src = dst THEN {fails, [ok |-> TRUE, disk |-> d, over |-> FALSE]}
        ELSE IF Exists(d, dst) /\ ~IsFile(d, dst) THEN {fails}
        ELSE {fails, [ok |-> TRUE, disk |-> Moved(d, src, dst), over |-> Exists(d, dst)]}

Call(src, dst, r) == [src |-> src, dst |-> dst, ok |-> r.ok, over |-> r.over]

(***************************************************************************)
(* main, lines 137-138: first pass, every source to its temporary name.    *)
(***************************************************************************)
RenameToTemp ==
    /\ pc = "step1"
    /\ \E r \in RenameResults(disk, temp_plan[k][1], temp_plan[k][2]) :
          /\ disk' = r.disk
          /\ log' = Append(log, Call(temp_plan[k][1], temp_plan[k][2], r))
          /\ IF ~r.ok
             THEN Exit(1, "oserror") /\ UNCHANGED k
             ELSE /\ Running
                  /\ IF k = Len(temp_plan)
                     THEN pc' = "step2" /\ k' = 1
                     ELSE pc' = "step1" /\ k' = k + 1
    /\ UNCHANGED <<folder, dry_run, files, existing_numbers, next_index,
                   ordered_new, pad, rename_plan, temp_plan, run, disk0>>
    /\ UNCHANGED <<padvars, srvvars>>

(***************************************************************************)
(* main, lines 141-144: second pass, every temporary name to its final     *)
(* name, then the summary.                                                 *)
(***************************************************************************)
RenameToFinal ==
    /\ pc = "step2"
    /\ \E r \in RenameResults(disk, temp_plan[k][2], temp_plan[k][3]) :
          /\ disk' = r.disk
          /\ log' = Append(log, Call(temp_plan[k][2], temp_plan[k][3], r))
          /\ IF ~r.ok
             THEN Exit(1, "oserror") /\ UNCHANGED k
             ELSE IF k = Len(temp_plan)
             THEN Exit(0, "done") /\ UNCHANGED k
             ELSE pc' = "step2" /\ k' = k + 1 /\ Running
    /\ UNCHANGED <<folder, dry_run, files, existing_numbers, next_index,
                   ordered_new, pad, rename_plan, temp_plan, run, disk0>>
    /\ UNCHANGED <<padvars, srvvars>>

(***************************************************************************)
(* The renamer is started again on the folder a completed run left.        *)
(***************************************************************************)
Rerun ==
    /\ pc = "exit"
    /\ outcome = "done"
    /\ run < MaxRuns
    /\ run' = run + 1
    /\ dry_run' \in BOOLEAN
    /\ disk0' = disk
    /\ pc' = "start"
    /\ files' = <<>>
    /\ existing_numbers' = <<>>
    /\ next_index' = 0
    /\ ordered_new' = <<>>
    /\ pad' = 0
    /\ rename_plan' = <<>>
    /\ temp_plan' = <<>>
    /\ k' = 0
    /\ log' = <<>>
    /\ exitCode' = -1
    /\ outcome' = ""
    /\ UNCHANGED <<folder, disk>>
    /\ UNCHANGED <<padvars, srvvars>>

Next ==
    \/ CheckFolder
    \/ Scan
    \/ Plan
    \/ Validate
    \/ DryRunOrExecute
    \/ RenameToTemp
    \/ RenameToFinal
    \/ Rerun

Spec == Init /\ [][Next]_vars

(***************************************************************************)
(* The padding width of lines 89-90 on its own: the two counts are drawn   *)
(* from the powers of ten and their neighbours, up to 10^MaxPow.           *)
(***************************************************************************)
RECURSIVE Pow10(_)
Pow10(d) == IF d = 0 THEN 1 ELSE 10 * Pow10(d - 1)

Counts == UNION {{Pow10(d) - 1, Pow10(d), Pow10(d) + 1} : d \in 0..MaxPow}

PadInit ==
    /\ pad_existing \in Counts
    /\ pad_new \in Counts
    /\ pad_width = 0
    /\ pc = "pad"
    /\ folder = "dir"
    /\ disk = {}
    /\ dry_run = TRUE
    /\ files = <<>>
    /\ existing_numbers = <<>>
    /\ next_index = 0
    /\ ordered_new = <<>>
    /\ pad = 0
    /\ rename_plan = <<>>
    /\ temp_plan = <<>>
    /\ k = 0
    /\ log = <<>>
    /\ exitCode = -1
    /\ outcome = ""
    /\ run = 1
    /\ disk0 = {}
    /\ ServerOff

ComputePad ==
    /\ pc = "pad"
    /\ pad_width' = PadWidth(pad_existing, pad_new)
    /\ pc' = "padded"
    /\ UNCHANGED <<folder, disk, dry_run, locals, log, exitCode, outcome, run,
                   disk0, pad_existing, pad_new, srvvars>>

PadNext == ComputePad

SpecPad == PadInit /\ [][PadNext]_vars

(***************************************************************************)
(* The metadata server: server.py, server_handler.py, metadata_helper.py   *)
(***************************************************************************)

\* handler threads of ThreadingSimpleServer that serve requests at a time
MaxHandlers == 1

\* the counter of watcher regenerations saturates here
MaxRegens == 3

Watcher == 0
Handlers == 1..MaxHandlers
Main == MaxHandlers + 1
Threads == {Watcher, Main} \cup Handlers

\* str.endswith
EndsWith(s, suf) ==
    /\ Len(s) >= Len(suf)
    /\ SubSeq(s, Len(s) - Len(suf) + 1, Len(s)) = suf

Slash == <<47>>

\* "images"
IMAGE_DIR == <<105, 109, 97, 103, 101, 115>>

\* "metadata.json"
MetaName == <<109, 101, 116, 97, 100, 97, 116, 97, 46, 106, 115, 111, 110>>

\* os.path.join(IMAGE_DIR, "metadata.json")
OUTPUT_FILE == IMAGE_DIR \o Slash \o MetaName

EXTS == {<<46, 106, 112, 103>>, <<46, 106, 112, 101, 103>>, <<46, 112, 110, 103>>, <<46, 103, 105, 102>>, <<46, 119, 101, 98, 112>>, <<46, 98, 109, 112>>, <<46, 115, 118, 103>>}

\* "/metadata.json", the suffix do_GET looks for
MetaSuffix == Slash \o MetaName

\* the files other processes put into the image directory: "a.PNG"
ServerNames == {<<97, 46, 80, 78, 71>>}

\* filename.lower().endswith(EXTS)
IsImageName(n) == \E x \in EXTS : EndsWith(Lower(n), x)

\* request paths: "/images/metadata.json", "/images/xmetadata.json"
Paths ==
    {Slash \o OUTPUT_FILE,
     Slash \o IMAGE_DIR \o Slash \o <<120>> \o MetaName}

\* SimpleHTTPRequestHandler.translate_path: the path relative to the
\* working directory
translate_path(p) == SubSeq(p, 2, Len(p))

\* os.listdir(IMAGE_DIR)
Listing == DOMAIN dirFiles \cup (IF meta.st = "absent" THEN {} ELSE {MetaName})

NoFiles == [n \in {} |-> TRUE]

\* kind: what the poll did; listed, prevList: the names of the latest
\* listing up to and before this poll; prevMissing: the poll before found
\* no directory
NoPoll == [kind |-> "none", prevMissing |-> FALSE, listed |-> {}, prevList |-> {}]

\* the renamer is not part of a run of the server
RenamerOff ==
    /\ pc = "server"
    /\ folder = "dir"
    /\ disk = {}
    /\ dry_run = TRUE
    /\ files = <<>>
    /\ existing_numbers = <<>>
    /\ next_index = 0
    /\ ordered_new = <<>>
    /\ pad = 0
    /\ rename_plan = <<>>
    /\ temp_plan = <<>>
    /\ k = 0
    /\ log = <<>>
    /\ exitCode = -1
    /\ outcome = ""
    /\ run = 1
    /\ disk0 = {}
    /\ pad_existing = 0
    /\ pad_new = 0
    /\ pad_width = 0

renvars == <<folder, disk, dry_run, pc, locals, log, exitCode, outcome, run,
             disk0, padvars>>

\* python server.py: the main thread is about to call generate_metadata
ServerInit ==
    /\ RenamerOff
    /\ \/ /\ dirExists = FALSE
          /\ dirFiles = NoFiles
       \/ /\ dirExists = TRUE
          /\ \E S \in SUBSET ServerNames : dirFiles = [n \in S |-> TRUE]
    /\ meta = [st |-> "absent", len |-> 0]
    /\ frozen = FALSE
    /\ tpc = [t \in Threads |-> IF t = Main THEN "g_exists" ELSE "off"]
    /\ tdata = [t \in Threads |-> 0]
    /\ hpath = [h \in Handlers |-> <<>>]
    /\ hgens = [h \in Handlers |-> 0]
    /\ hresp = [h \in Handlers |-> "none"]
    /\ wprev = {}
    /\ wnow = {}
    /\ lastPoll = NoPoll
    /\ regens = 0

handlervars == <<hpath, hgens, hresp>>
watchervars == <<wprev, wnow, lastPoll, regens>>
dirvars == <<dirExists, dirFiles, meta>>

\* watch_images after generate_metadata returned: prev = now
PrevAfterRegen_Kept(prev, now) == prev

PrevAfterRegen(prev, now) == now

\* generate_metadata returns to its caller
Return(t) ==
    /\ tdata' = [tdata EXCEPT ![t] = 0]
    /\ IF t = Main
       THEN \* __main__: the watcher thread is started, then serve_forever
            /\ tpc' = [u \in Threads |->
                         IF u = Main THEN "serving"
                         ELSE IF u = Watcher THEN "w_start" ELSE "idle"]
            /\ UNCHANGED <<handlervars, watchervars>>
       ELSE IF t = Watcher
       THEN /\ tpc' = [tpc EXCEPT ![t] = "w_poll"]
            /\ wprev' = PrevAfterRegen(wprev, wnow)
            /\ wnow' = {}
            /\ UNCHANGED <<handlervars, lastPoll, regens>>
       ELSE /\ tpc' = [tpc EXCEPT ![t] = "serve"]
            /\ hgens' = [hgens EXCEPT ![t] = 1]
            /\ UNCHANGED <<hpath, hresp, watchervars>>

\* an exception leaves generate_metadata: the program ends when it was the
\* main thread, the watcher thread ends, a request ends without response
Raise(t) ==
    /\ tdata' = [tdata EXCEPT ![t] = 0]
    /\ IF t = Main
       THEN /\ tpc' = [tpc EXCEPT ![t] = "crashed"]
            /\ UNCHANGED <<handlervars, watchervars>>
       ELSE IF t = Watcher
       THEN /\ tpc' = [tpc EXCEPT ![t] = "dead"]
            /\ wnow' = {}
            /\ UNCHANGED <<handlervars, wprev, lastPoll, regens>>
       ELSE /\ tpc' = [tpc EXCEPT ![t] = "idle"]
            /\ hpath' = [hpath EXCEPT ![t] = <<>>]
            /\ hgens' = [hgens EXCEPT ![t] = 0]
            /\ UNCHANGED <<hresp, watchervars>>

\* generate_metadata: if not os.path.exists(IMAGE_DIR): return []
GenExists(t) ==
    /\ tpc[t] = "g_exists"
    /\ IF dirExists
       THEN /\ tpc' = [tpc EXCEPT ![t] = "g_list"]
            /\ UNCHANGED <<tdata, handlervars, watchervars>>
       ELSE Return(t)
    /\ UNCHANGED <<dirvars, frozen, renvars>>

\* the images PIL can read, in the data of generate_metadata
Readable == {n \in DOMAIN dirFiles : IsImageName(n) /\ dirFiles[n]}

\* generate_metadata: the loop over os.listdir(IMAGE_DIR)
GenList(t) ==
    /\ tpc[t] = "g_list"
    /\ IF dirExists
       THEN /\ tpc' = [tpc EXCEPT ![t] = "g_open"]
            /\ tdata' = [tdata EXCEPT ![t] = Cardinality(Readable)]
            /\ UNCHANGED <<handlervars, watchervars>>
       ELSE Raise(t)
    /\ UNCHANGED <<dirvars, frozen, renvars>>

\* generate_metadata: os.makedirs(..., exist_ok=True); open(OUTPUT_FILE, "w")
GenOpen(t) ==
    /\ tpc[t] = "g_open"
    /\ dirExists' = TRUE
    /\ meta' = [st |-> "truncated", len |-> 0]
    /\ tpc' = [tpc EXCEPT ![t] = "g_dump"]
    /\ UNCHANGED <<dirFiles, tdata, frozen, handlervars, watchervars, renvars>>

\* the file after json.dump and close by a thread that opened it before the
\* content it finds was written: its bytes replace the first bytes
Written(m, len) ==
    IF m.st \in {"complete", "mixed"} /\ m.len > len
    THEN [st |-> "mixed", len |-> m.len]
    ELSE [st |-> "complete", len |-> len]

\* generate_metadata: json.dump(data, f, indent=2) and the end of the with
GenDump(t) ==
    /\ tpc[t] \in {"g_dump", "g_lost"}
    /\ meta' = IF tpc[t] = "g_lost" THEN meta ELSE Written(meta, tdata[t])
    /\ Return(t)
    /\ UNCHANGED <<dirExists, dirFiles, frozen, renvars>>

\* do_GET: generate_metadata first when the path ends with "/metadata.json"
AfterDispatch_ServeOnly(path) == "serve"

AfterDispatch(path) == IF EndsWith(path, MetaSuffix) THEN "g_exists" ELSE "serve"

\* a request arrives and do_GET starts in a handler thread
Request(h, path) ==
    /\ tpc[h] = "idle"
    /\ hpath' = [hpath EXCEPT ![h] = path]
    /\ hgens' = [hgens EXCEPT ![h] = 0]
    /\ hresp' = [hresp EXCEPT ![h] = "none"]
    /\ tpc' = [tpc EXCEPT ![h] = AfterDispatch(path)]
    /\ UNCHANGED <<dirvars, frozen, tdata, watchervars, renvars>>

\* what SimpleHTTPRequestHandler.do_GET reads for a path
Served(path) ==
    IF translate_path(path) = OUTPUT_FILE /\ dirExists /\ meta.st # "absent"
    THEN meta.st
    ELSE "404"

\* do_GET: return super().do_GET()
Serve(h) ==
    /\ tpc[h] = "serve"
    /\ hresp' = [hresp EXCEPT ![h] = Served(hpath[h])]
    /\ tpc' = [tpc EXCEPT ![h] = "served"]
    /\ UNCHANGED <<dirvars, frozen, tdata, hpath, hgens, watchervars, renvars>>

\* the request is finished, the thread takes the next one
Finish(h) ==
    /\ tpc[h] = "served"
    /\ tpc' = [tpc EXCEPT ![h] = "idle"]
    /\ hpath' = [hpath EXCEPT ![h] = <<>>]
    /\ hgens' = [hgens EXCEPT ![h] = 0]
    /\ hresp' = [hresp EXCEPT ![h] = "none"]
    /\ UNCHANGED <<dirvars, frozen, tdata, watchervars, renvars>>

\* watch_images: prev = set(os.listdir(IMAGE_DIR)) if exists else set()
WatchStart ==
    /\ tpc[Watcher] = "w_start"
    /\ wprev' = IF dirExists THEN Listing ELSE {}
    /\ lastPoll' = [NoPoll EXCEPT !.kind = "start", !.listed = wprev']
    /\ tpc' = [tpc EXCEPT ![Watcher] = "w_poll"]
    /\ UNCHANGED <<dirvars, frozen, tdata, handlervars, wnow, regens, renvars>>

\* watch_images: time.sleep(interval); if not exists: continue
WatchPoll ==
    /\ tpc[Watcher] = "w_poll"
    /\ IF dirExists
       THEN /\ tpc' = [tpc EXCEPT ![Watcher] = "w_list"]
            /\ UNCHANGED lastPoll
       ELSE /\ lastPoll' = [kind |-> "nodir",
                            prevMissing |-> (lastPoll.kind = "nodir"),
                            listed |-> lastPoll.listed,
                            prevList |-> lastPoll.listed]
            /\ UNCHANGED tpc
    /\ UNCHANGED <<dirvars, frozen, tdata, handlervars, wprev, wnow, regens,
                   renvars>>

\* watch_images: if now != prev
Changed_ByCount(now, prev) == Cardinality(now) # Cardinality(prev)

Changed(now, prev) == now # prev

\* watch_images: now = set(os.listdir(IMAGE_DIR)); if now != prev: regenerate
WatchList ==
    /\ tpc[Watcher] = "w_list"
    /\ IF ~dirExists
       THEN /\ tpc' = [tpc EXCEPT ![Watcher] = "dead"]
            /\ UNCHANGED <<wnow, lastPoll, regens>>
       ELSE /\ lastPoll' = [kind |-> IF Changed(Listing, wprev) THEN "regen" ELSE "skip",
                            prevMissing |-> (lastPoll.kind = "nodir"),
                            listed |-> Listing,
                            prevList |-> lastPoll.listed]
            /\ IF Changed(Listing, wprev)
               THEN /\ wnow' = Listing
                    /\ tpc' = [tpc EXCEPT ![Watcher] = "g_exists"]
                    /\ regens' = IF frozen THEN Min(regens + 1, MaxRegens) ELSE regens
               ELSE /\ tpc' = [tpc EXCEPT ![Watcher] = "w_poll"]
                    /\ UNCHANGED <<wnow, regens>>
    /\ UNCHANGED <<dirvars, frozen, tdata, handlervars, wprev, renvars>>

\* another process puts a file into the image directory
ExtAdd(n, r) ==
    /\ ~frozen /\ dirExists
    /\ n \notin DOMAIN dirFiles
    /\ dirFiles' = [m \in DOMAIN dirFiles \cup {n} |-> IF m = n THEN r ELSE dirFiles[m]]
    /\ UNCHANGED <<dirExists, meta, frozen, tpc, tdata, handlervars, watchervars, renvars>>

\* another process removes a file of the image directory
ExtRemove(n) ==
    /\ ~frozen
    /\ n \in DOMAIN dirFiles
    /\ dirFiles' = [m \in DOMAIN dirFiles \ {n} |-> dirFiles[m]]
    /\ UNCHANGED <<dirExists, meta, frozen, tpc, tdata, handlervars, watchervars, renvars>>

\* another process replaces the content of an image, its name stays
ExtModify(n) ==
    /\ ~frozen
    /\ n \in DOMAIN dirFiles /\ IsImageName(n)
    /\ dirFiles' = [dirFiles EXCEPT ![n] = ~dirFiles[n]]
    /\ UNCHANGED <<dirExists, meta, frozen, tpc, tdata, handlervars, watchervars, renvars>>

\* a writer whose file was unlinked writes to a file no name leads to
Unlinked == [t \in Threads |-> IF tpc[t] = "g_dump" THEN "g_lost" ELSE tpc[t]]

\* another process removes metadata.json
ExtRemoveMeta ==
    /\ ~frozen
    /\ meta.st # "absent"
    /\ meta' = [st |-> "absent", len |-> 0]
    /\ tpc' = Unlinked
    /\ UNCHANGED <<dirExists, dirFiles, frozen, tdata, handlervars, watchervars, renvars>>

\* another process removes the image directory with all its files
ExtRemoveDir ==
    /\ ~frozen
    /\ dirExists
    /\ dirExists' = FALSE
    /\ dirFiles' = NoFiles
    /\ meta' = [st |-> "absent", len |-> 0]
    /\ tpc' = Unlinked
    /\ UNCHANGED <<frozen, tdata, handlervars, watchervars, renvars>>

\* another process creates the image directory
ExtCreateDir ==
    /\ ~frozen
    /\ ~dirExists
    /\ dirExists' = TRUE
    /\ UNCHANGED <<dirFiles, meta, frozen, tpc, tdata, handlervars, watchervars, renvars>>

\* from now on no other process changes the image directory
Freeze ==
    /\ ~frozen
    /\ frozen' = TRUE
    /\ UNCHANGED <<dirvars, tpc, tdata, handlervars, watchervars, renvars>>

ServerNext ==
    \/ \E t \in Threads : GenExists(t)
    \/ \E t \in Threads : GenList(t)
    \/ \E t \in Threads : GenOpen(t)
    \/ \E t \in Threads : GenDump(t)
    \/ \E h \in Handlers : \E path \in Paths : Request(h, path)
    \/ \E h \in Handlers : Serve(h)
    \/ \E h \in Handlers : Finish(h)
    \/ WatchStart
    \/ WatchPoll
    \/ WatchList
    \/ \E n \in ServerNames : \E r \in BOOLEAN : ExtAdd(n, r)
    \/ \E n \in ServerNames : ExtRemove(n)
    \/ \E n \in ServerNames : ExtModify(n)
    \/ ExtRemoveMeta
    \/ ExtRemoveDir
    \/ ExtCreateDir
    \/ Freeze

SpecServer == ServerInit /\ [][ServerNext]_vars

(***************************************************************************)
(* Properties.                                                             *)
(***************************************************************************)
Planned == pc \in {"check", "ready", "step1", "step2"} \/ (pc = "exit" /\ outcome \notin {"nofolder", "noimages"})

Sources == {rename_plan[i][1] : i \in DOMAIN rename_plan}

Finals == {rename_plan[i][2] : i \in DOMAIN rename_plan}

\* the index a final name shows
IndexOf(p) == ParseInt(Stem(p))

\* C1: Two-phase safety.  A rename call whose target is a planned final name
\* is issued only after every source of the plan has been renamed, in plan
\* order, to its temporary name; no rename call replaces an existing entry;
\* the folder holds as many entries, under pairwise different names, as when
\* the run started.
C1_TwoPhaseSafety ==
    /\ \A i \in DOMAIN log :
          log[i].dst \in Finals =>
             /\ i > Len(temp_plan)
             /\ \A j \in DOMAIN temp_plan :
                   /\ log[j].ok
                   /\ log[j].src = temp_plan[j][1]
                   /\ log[j].dst = temp_plan[j][2]
                   /\ log[j].dst \notin Finals
    /\ \A i \in DOMAIN log : ~log[i].over
    /\ Cardinality(disk) = Cardinality(disk0)
    /\ \A e1, e2 \in disk : e1.name = e2.name => e1 = e2

\* C1 witness: the second pass has issued a call in a run one of whose planned
\* final names was the name of another entry of the folder before the run.
C1_Witness ==
    /\ Len(temp_plan) >= 1
    /\ Len(log) > Len(temp_plan)
    /\ \E i \in DOMAIN temp_plan : Exists(disk0, temp_plan[i][3])

\* C2: Idempotence.  A run started on the folder a completed run left issues
\* no rename call, plans no rename and leaves the folder as it found it.
C2_Idempotence ==
    run > 1 =>
        /\ log = <<>>
        /\ disk = disk0
        /\ (Planned => ordered_new = <<>> /\ rename_plan = <<>>)
        /\ (pc = "exit" => exitCode = 0)

\* C2 witness: a second run has ended on a folder in which the first run
\* renamed a file.
C2_Witness ==
    /\ run > 1
    /\ pc = "exit"
    /\ outcome = "done"
    /\ \E e \in disk : e.name # e.orig

\* C3: After renaming, whenever one dated file's timestamp is earlier than
\* another's, its assigned final name is lexically smaller (as text).
C3_LexicalOrderIsChronological ==
    outcome = "done" =>
        \A i, j \in DOMAIN rename_plan :
            (/\ parse_date_from_name(rename_plan[i][1]) # None
             /\ parse_date_from_name(rename_plan[j][1]) # None
             /\ DateLess(rename_plan[i][1], rename_plan[j][1]))
            => StrLess(NameChars(rename_plan[i][2]), NameChars(rename_plan[j][2]))

\* C4: Every scanned file whose stem consists only of digits is preserved: it
\* is no source of the rename plan and is still in the folder under its name.
C4_NumberedFilesPreserved ==
    Planned =>
        \A i \in DOMAIN files :
            IsNumbered(files[i]) => files[i] \notin Sources /\ Exists(disk, files[i])

\* C5: A run on a missing folder or a non-directory, and a run one of whose
\* planned temporary names exists in the folder, ends with exit code 1; a run
\* on a folder without image files ends with exit code 0; a run that ends on
\* one of the checks (folder, no images, collision, duplicate targets, existing
\* temporary name) has issued no rename call and left the folder as it was;
\* and a rename call is issued only after all of these checks have passed.
C5_AbortsBeforeAnyRename ==
    /\ (pc = "exit" /\ folder # "dir") => outcome = "nofolder" /\ exitCode = 1
    /\ (pc = "exit" /\ folder = "dir" /\ ImageFiles(disk0) = {})
          => outcome = "noimages" /\ exitCode = 0
    /\ (pc = "exit" /\ \E i \in DOMAIN rename_plan :
                          Exists(disk0, [rename_plan[i][2] EXCEPT !.tmp = TRUE]))
          => outcome \in {"collision", "duplicate", "tempexists"} /\ exitCode = 1
    /\ outcome \in {"nofolder", "collision", "duplicate", "tempexists"} => exitCode = 1
    /\ outcome \in {"nofolder", "noimages", "collision", "duplicate", "tempexists"}
          => log = <<>> /\ disk = disk0
    /\ log # <<>> =>
          /\ folder = "dir"
          /\ files # <<>>
          /\ ~Collision(existing_numbers, pad, rename_plan)
          /\ ~DuplicateTargets(rename_plan)
          /\ \A i \in DOMAIN rename_plan :
                ~Exists(disk0, [rename_plan[i][2] EXCEPT !.tmp = TRUE])

\* C5 witness: a run has ended on an existing temporary name.
C5_Witness == pc = "exit" /\ outcome = "tempexists" /\ Len(rename_plan) >= 1

\* C6: In dry-run mode no rename call is issued and the folder stays as it
\* was; a dry run that passes the checks ends with exit code 0 holding the
\* full plan: one triple for every scanned file that is not preserved.
C6_DryRunChangesNothing ==
    dry_run =>
        /\ log = <<>>
        /\ disk = disk0
        /\ pc \notin {"step1", "step2"}
        /\ outcome \notin {"done", "oserror"}
        /\ outcome = "dryrun" =>
              /\ exitCode = 0
              /\ Len(temp_plan) = Len(files) - Cardinality(Range(existing_numbers))
              /\ {temp_plan[i][1] : i \in DOMAIN temp_plan}
                    = Range(files) \ Range(existing_numbers)

\* C6 witness: a dry run has reported a plan of two renames.
C6_Witness == dry_run /\ outcome = "dryrun" /\ Len(temp_plan) >= 2

Dated(p) == parse_date_from_name(p) # None

\* C7: The plan's sources are the scanned files that are not preserved: the
\* dated ones first, in ascending timestamp order, then the undated ones in
\* ascending order of their lowercased names.  Their final names show the
\* consecutive indices next_index, next_index + 1, ..., where next_index is
\* one more than the largest number among the scanned numbered files, or 1
\* when there is none.
C7_ConsecutiveIndicesInOrder ==
    Planned =>
        LET nums == {NumberOf(files[i]) : i \in {j \in DOMAIN files : IsNumbered(files[j])}}
            first == IF nums = {} THEN 1 ELSE SetMax(nums) + 1
        IN  /\ next_index = first
            /\ \A n \in nums : n < next_index
            /\ Len(rename_plan) = Len(ordered_new)
            /\ Range(ordered_new) = Range(files) \ Range(existing_numbers)
            /\ \A i \in DOMAIN rename_plan :
                  /\ rename_plan[i][1] = ordered_new[i]
                  /\ NUM_RE(Stem(rename_plan[i][2]))
                  /\ IndexOf(rename_plan[i][2]) = first + i - 1
            /\ \A i, j \in DOMAIN ordered_new :
                  i < j =>
                     /\ Dated(ordered_new[j]) => Dated(ordered_new[i])
                     /\ Dated(ordered_new[i]) /\ Dated(ordered_new[j])
                           => ~DateLess(ordered_new[j], ordered_new[i])
                     /\ ~Dated(ordered_new[i]) /\ ~Dated(ordered_new[j])
                           => ~NameLowerLess(ordered_new[j], ordered_new[i])

\* C7 witness: a plan of a dated and an undated file in a folder whose only
\* numbered file is number 5, so that the indices 1 to 4 are free.
C7_Witness ==
    /\ outcome = "done"
    /\ DOMAIN existing_numbers = {5}
    /\ Len(ordered_new) = 2
    /\ Dated(ordered_new[1])
    /\ ~Dated(ordered_new[2])

\* C8: The padding width is max(4, number of decimal digits of the total of
\* numbered and new files): it is at least 4, the total has at most that many
\* digits, and above 4 the total has exactly that many digits.
C8_PadWidth ==
    pc = "padded" =>
        LET total == pad_existing + pad_new
        IN  /\ pad_width >= 4
            /\ total < Pow10(pad_width)
            /\ pad_width > 4 => total >= Pow10(pad_width - 1)

\* C8 witness: the width 5 for a total of 10000.
C8_Witness == pc = "padded" /\ pad_existing + pad_new = 10000 /\ pad_width = 5

\* C9, the case of the collision policy: no plan holds the index of a
\* preserved numbered file, since the planned indices start above the largest
\* of them; the collision exit and the duplicate-target exit are never taken.
C9_NoPlannedIndexIsPreserved ==
    /\ Planned =>
          \A i \in DOMAIN rename_plan :
              IndexOf(rename_plan[i][2]) \notin DOMAIN existing_numbers
    /\ outcome \notin {"collision", "duplicate"}

\* C10: When the executor is reached, the planned final names are pairwise
\* different, none of them is the name, or the name re-rendered at the
\* padding width, of a preserved numbered file, and no planned temporary name
\* names an entry of the folder as it is when the first rename is issued.
C10_PlanInvariant ==
    (pc \in {"step1", "step2"} \/ log # <<>>) =>
        /\ \A i, j \in DOMAIN temp_plan :
              i # j => NameChars(temp_plan[i][3]) # NameChars(temp_plan[j][3])
        /\ \A i \in DOMAIN temp_plan : \A n \in DOMAIN existing_numbers :
              /\ temp_plan[i][3] # existing_numbers[n]
              /\ NameChars(temp_plan[i][3])
                    # ZeroPad(n, pad) \o Lower(Suffix(existing_numbers[n]))
        /\ \A i \in DOMAIN temp_plan :
              /\ NameChars(temp_plan[i][2]) = NameChars(temp_plan[i][3]) \o temp_suffix
              /\ \A e \in disk0 : NameChars(e.name) # NameChars(temp_plan[i][2])

\* C10 witness: the first rename is about to be issued for a plan of two
\* files in a folder with a preserved numbered file.
C10_Witness ==
    /\ pc = "step1"
    /\ k = 1
    /\ log = <<>>
    /\ Len(temp_plan) >= 2
    /\ DOMAIN existing_numbers # {}

\* C11: Two dated files with equal timestamps are ordered by file name: the
\* one with the smaller name comes first in the plan, whatever the listing
\* order was.
C11_TiesBrokenByName ==
    Planned =>
        \A i, j \in DOMAIN ordered_new :
            (/\ Dated(ordered_new[i])
             /\ Dated(ordered_new[j])
             /\ parse_date_from_name(ordered_new[i]) = parse_date_from_name(ordered_new[j])
             /\ StrLess(NameChars(ordered_new[i]), NameChars(ordered_new[j])))
            => i < j

\* C12: Which file is preserved for a number does not depend on the order of
\* the listing: every listing of the same set of scanned files yields the
\* existing_numbers of this run.
C12_PreservedIndependentOfListing ==
    Planned =>
        \A l \in Listings(Range(files)) : detect_existing_numbers(l) = existing_numbers

\* the entries of the folder that were scanned
ScannedAtStart == {e \in disk0 : e.name \in Range(files)}

\* the names the plan allows a scanned file to have
AllowedNames(p) ==
    {p} \cup UNION {{temp_plan[i][2], temp_plan[i][3]} : i \in {j \in DOMAIN temp_plan : temp_plan[j][1] = p}}

\* C15: When a rename call fails the run ends at once with exit code 1: the
\* failed call is the last call and changed nothing, the calls before it are
\* the plan's calls in order (nothing retried, nothing undone), every scanned
\* file is still in the folder exactly once, under its original, temporary or
\* final name, and when the failure came in the first pass no scanned file
\* has a final name.
C15_FailureStopsRun ==
    (\E i \in DOMAIN log : ~log[i].ok) =>
        LET n == Len(temp_plan)
            m == Len(log)
        IN  /\ pc = "exit" /\ outcome = "oserror" /\ exitCode = 1
            /\ \A i \in DOMAIN log : log[i].ok <=> i < m
            /\ \A i \in DOMAIN log :
                  IF i <= n
                  THEN log[i].src = temp_plan[i][1] /\ log[i].dst = temp_plan[i][2]
                  ELSE log[i].src = temp_plan[i - n][2] /\ log[i].dst = temp_plan[i - n][3]
            /\ \A e0 \in ScannedAtStart :
                  /\ Cardinality({e \in disk : e.orig = e0.orig}) = 1
                  /\ \A e \in disk : e.orig = e0.orig =>
                        /\ ~e.isdir
                        /\ e.name \in AllowedNames(e0.name)
            /\ m <= n =>
                  \A e0 \in ScannedAtStart : \A e \in disk :
                      e.orig = e0.orig => e.name \notin Finals

\* C15 witness: a call of the second pass has failed after a successful one.
C15_Witness ==
    /\ outcome = "oserror"
    /\ Len(temp_plan) >= 2
    /\ Len(log) = Len(temp_plan) + 2

\* a handler thread has begun to serve the response of its request
Serving(h) == tpc[h] \in {"serve", "served"}

\* a thread is inside generate_metadata
Generating(t) == tpc[t] \in {"g_exists", "g_list", "g_open", "g_dump", "g_lost"}

\* C13, as stated: for a request whose path ends with the name of the
\* metadata file, "metadata.json", a regeneration has finished when the
\* handler begins to serve; any other request regenerates nothing.
C13_RegeneratesForPathsEndingWithName ==
    \A h \in Handlers :
        hpath[h] # <<>> =>
            IF EndsWith(hpath[h], MetaName)
            THEN Serving(h) => hgens[h] = 1
            ELSE Serving(h) /\ hgens[h] = 0

\* C13, amended: for a request whose path ends with "/metadata.json" the
\* handler's call of generate_metadata has returned when it begins to
\* serve, and it is called once; a request with any other path, also one
\* that ends with "metadata.json" without the slash, calls nothing and goes
\* straight to serving.
C13_RegeneratesBeforeServing ==
    \A h \in Handlers :
        hpath[h] # <<>> =>
            IF EndsWith(hpath[h], MetaSuffix)
            THEN /\ Serving(h) <=> hgens[h] = 1
                 /\ ~Serving(h) => Generating(h)
            ELSE Serving(h) /\ hgens[h] = 0

\* C13 witness: a request for /images/metadata.json was served the file
\* after its own regeneration.
C13_Witness ==
    \E h \in Handlers :
        /\ tpc[h] = "served"
        /\ EndsWith(hpath[h], MetaSuffix)
        /\ hgens[h] = 1
        /\ hresp[h] = "complete"

\* the names a poll saw, a missing directory counted as no names (as line 17
\* of server.py does)
PollSet == IF lastPoll.kind = "nodir" THEN {} ELSE lastPoll.listed

\* the names the poll before saw
PrevPollSet == IF lastPoll.prevMissing THEN {} ELSE lastPoll.prevList

\* C14, as stated: at every poll the watcher regenerates exactly when the
\* names in the image directory differ from the names at the poll before.
C14_RegeneratesIffNamesDifferFromPreviousPoll ==
    lastPoll.kind \in {"nodir", "skip", "regen"} =>
        (lastPoll.kind = "regen" <=> PollSet # PrevPollSet)

\* C14, amended: at every poll that finds the image directory the watcher
\* regenerates exactly when the listed names differ from the names of the
\* latest listing before (at start-up, where a missing directory counts as
\* no names, or at the latest poll that found the directory); a poll that
\* finds no directory regenerates nothing and is not a listing.  Only names
\* are compared.
C14_RegeneratesIffNamesDifferFromLatestListing ==
    /\ lastPoll.kind \in {"skip", "regen"} =>
          (lastPoll.kind = "regen" <=> lastPoll.listed # lastPoll.prevList)
    /\ Generating(Watcher) => lastPoll.kind = "regen"
    /\ tpc[Watcher] \in {"w_poll", "w_list"} => wprev = lastPoll.listed

\* C14 witness: the poll after one that found no directory lists other names
\* than the latest listing and regenerates.
C14_Witness ==
    /\ lastPoll.kind = "regen"
    /\ lastPoll.prevMissing
    /\ lastPoll.listed # {}
    /\ tpc[Watcher] = "g_exists"

\* C16: every response to a request for the metadata file is read from a
\* complete file, never from one that a regeneration has truncated or partly
\* rewritten.
C16_ResponsesComplete ==
    \A h \in Handlers :
        (tpc[h] = "served" /\ translate_path(hpath[h]) = OUTPUT_FILE) =>
            hresp[h] \notin {"truncated", "mixed"}

\* C17: after the other processes stopped changing the image directory the
\* watcher decides at most two more regenerations (the second one because
\* the first one created metadata.json in the directory it lists).
C17_WatcherQuiescence == regens <= 2

\* C17 witness: the directory is frozen, the watcher has regenerated twice
\* since and its latest poll found nothing to do.
C17_Witness ==
    /\ frozen
    /\ regens = 2
    /\ tpc[Watcher] = "w_poll"
    /\ lastPoll.kind = "skip"

====
